---- MODULE Spec2Model ----
(***************************************************************************)
(* Model of src/Keysight_Oscope.py: the class Keysight_DSOX1204G, its      *)
(* transport session (self.OS), the instrument's pending responses, the    *)
(* file system saveImage writes to, and the callers (threads) of the       *)
(* object's methods.                                                       *)
(*                                                                         *)
(* Bytes are one-character strings; a byte sequence is a sequence of them. *)
(* An unbound Python local, a missing attribute and a missing file are the *)
(* empty sequence None; a bound one is the one-element sequence Some(v).   *)
(***************************************************************************)
EXTENDS Integers, Sequences, FiniteSets, TLC

\* ------------------------------------------------------------ bounds

\* Longest response byte sequence the exhaustive decode check enumerates.
MaxLen == 5

\* Total number of method calls made on the object in one behaviour.
MaxCalls == 2

\* ------------------------------------------------------- values, bytes

None == << >>
Some(v) == << v >>

Threads == {1, 2}

Digit == {"0", "1", "2", "3", "4", "5", "6", "7", "8", "9"}
Sign == {"+", "-"}
Whitespace == {" "}
Underscore == "_"

\* The bytes responses are built from: the block marker, digits, a sign, a
\* whitespace byte, the digit separator and a byte that is none of these.
Byte == {"#", "0", "1", "2", "-", " ", "_", "A"}

DigitVal(c) ==
    CASE c = "0" -> 0 [] c = "1" -> 1 [] c = "2" -> 2 [] c = "3" -> 3
      [] c = "4" -> 4 [] c = "5" -> 5 [] c = "6" -> 6 [] c = "7" -> 7
      [] c = "8" -> 8 [] c = "9" -> 9

Min(a, b) == IF a < b THEN a ELSE b
Max(a, b) == IF a > b THEN a ELSE b

\* Every byte sequence of length at most n.
BytesUpTo(n) == UNION {[1..k -> Byte] : k \in 0..n}

\* ------------------------------------------------- Python primitives

\* s[lo:hi] for lo >= 0 and any integer hi: a negative hi counts from the
\* end, both ends are clamped to the sequence, an empty range is empty.
PySlice(s, lo, hi) ==
    LET n == Len(s)
        a == Min(lo, n)
        b == IF hi < 0 THEN Max(hi + n, 0) ELSE Min(hi, n)
    IN  IF b > a THEN SubSeq(s, a + 1, b) ELSE << >>

RECURSIVE LStrip(_)
LStrip(s) ==
    IF s # << >> /\ Head(s) \in Whitespace THEN LStrip(Tail(s)) ELSE s

RECURSIVE RStrip(_)
RStrip(s) ==
    IF s # << >> /\ s[Len(s)] \in Whitespace
    THEN RStrip(SubSeq(s, 1, Len(s) - 1))
    ELSE s

\* The digits of a literal: digits, with single underscores between digits.
IsDigits(s) ==
    /\ s # << >>
    /\ s[1] \in Digit
    /\ s[Len(s)] \in Digit
    /\ \A i \in 1..Len(s) : s[i] \in Digit \/ s[i] = Underscore
    /\ \A i \in 1..(Len(s) - 1) : ~(s[i] = Underscore /\ s[i + 1] = Underscore)

RECURSIVE DigitsValue(_, _)
DigitsValue(s, acc) ==
    IF s = << >> THEN acc
    ELSE IF Head(s) = Underscore THEN DigitsValue(Tail(s), acc)
    ELSE DigitsValue(Tail(s), 10 * acc + DigitVal(Head(s)))

\* int(b) for a bytes object b, base 10: surrounding whitespace is stripped,
\* one sign is accepted, underscores may separate digits. None is ValueError.
PyInt(b) ==
    LET s == RStrip(LStrip(b))
        signed == s # << >> /\ Head(s) \in Sign
        body == IF signed THEN Tail(s) ELSE s
    IN  IF ~IsDigits(body) THEN None
        ELSE IF signed /\ Head(s) = "-" THEN Some(0 - DigitsValue(body, 0))
        ELSE Some(DigitsValue(body, 0))

\* ------------------------------------- saveImage: the block decode

\* Mutant of StartsWithHash: the marker is looked for anywhere in the response.
StartsWithHash_Anywhere(d) == \E i \in 1..Len(d) : d[i] = "#"

\* data.startswith(b'#')
StartsWithHash(d) == d # << >> /\ d[1] = "#"

\* int(data[1:2])
HeaderLength(d) == PyInt(PySlice(d, 1, 2))

\* int(data[2:2 + header_length])
DataLength(d, H) == PyInt(PySlice(d, 2, 2 + H))

\* Mutant of BinaryData: the slice runs to the end of the response.
BinaryData_ToEnd(d, H, L) == PySlice(d, 2 + H, Len(d))

\* Mutant of BinaryData: nothing is extracted from a block shorter than declared.
BinaryData_EmptyIfShort(d, H, L) ==
    IF Len(d) < 2 + H + L THEN << >> ELSE PySlice(d, 2 + H, 2 + H + L)

\* data[2 + header_length:2 + header_length + data_length]
BinaryData(d, H, L) == PySlice(d, 2 + H, 2 + H + L)

\* Mutant of Decode: a header that does not parse is swallowed and the whole
\* response is used as raw data.
Decode_FallbackRaw(d) ==
    LET raw == [exc |-> None, header_length |-> None, data_length |-> None,
                binary_data |-> Some(d)]
    IN  IF ~StartsWithHash(d) \/ HeaderLength(d) = None THEN raw
        ELSE IF DataLength(d, HeaderLength(d)[1]) = None THEN raw
        ELSE [exc |-> None, header_length |-> HeaderLength(d),
              data_length |-> DataLength(d, HeaderLength(d)[1]),
              binary_data |-> Some(BinaryData(d, HeaderLength(d)[1],
                                              DataLength(d, HeaderLength(d)[1])[1]))]

\* Lines 221-226 on the response d: the exception raised (None when none)
\* and the locals as the block leaves them.
Decode(d) ==
    IF ~StartsWithHash(d)
    THEN [exc |-> None, header_length |-> None, data_length |-> None,
          binary_data |-> Some(d)]
    ELSE LET hl == HeaderLength(d) IN
         IF hl = None
         THEN [exc |-> Some("ValueError"), header_length |-> None,
               data_length |-> None, binary_data |-> None]
         ELSE LET dl == DataLength(d, hl[1]) IN
              IF dl = None
              THEN [exc |-> Some("ValueError"), header_length |-> hl,
                    data_length |-> None, binary_data |-> None]
              ELSE [exc |-> None, header_length |-> hl, data_length |-> dl,
                    binary_data |-> Some(BinaryData(d, hl[1], dl[1]))]

\* ------------------------------------------------------------- state

VARIABLES
    IDN, USB_Addr, LAN_Addr, \* the object's string fields (lines 38-40)
    OS,                      \* the session attribute: Some(address), or None
                             \* when __init__ opened nothing (lines 42-45)
    IO_Conf,                 \* the constructor's argument
    session,                 \* "open" or "closed": the state of the session
    outq,                    \* queries the instrument has a reply pending for
    files,                   \* the file system: location -> None or Some(bytes)
    ncalls,                  \* method calls started so far
    frame,                   \* each caller's running call: position and locals
    last                     \* the call that ended last, with how it ended

fields == <<IDN, USB_Addr, LAN_Addr, OS, IO_Conf>>
vars == <<fields, session, outq, files, ncalls, frame, last>>

IdentityText == "KEYSIGHT TECHNOLOGIES,DSOX1204G,CN60167508,02.10.2019111333"
UsbAddress == "USB0::10893::918::CN60167508::INSTR"
LanAddress == "TCPIP0::k-dx1204g-67508::hislip0::INSTR"

Locations == {"a.png", "b.png"}

\* The arguments saveImage is called with: location and palette.
Images == { <<"a.png", "COLor">>, <<"b.png", "GRAYscale">> }

\* Block replies the instrument gives in the full specification: a
\* well-formed block with a byte after its payload, a malformed header, and
\* data without a header.
SampleBlocks == { <<"#", "1", "1", "A", "0">>, <<"#", "A">>, <<"0", "A">> }

\* Replies to '*IDN?': the identity with and without its newline.
IdnReplies == { <<IdentityText, "\n">>, <<IdentityText>> }

\* The source argument of the measurement methods.
MeasSources == {"CHANnel1"}

\* The measurement each measurement method names in its two commands.
Measurements ==
    { ":MEASure:DUTYcycle", ":MEASure:FALLtime", ":MEASure:Risetime",
      ":MEASure:FREQuency", ":MEASure:VAMPlitude", ":MEASure:VAVerage",
      ":MEASure:VBASe", ":MEASure:VTOP", ":MEASure:VMAX", ":MEASure:VMIN",
      ":MEASure:VPP", ":MEASure:VRMS", ":MEASure:XMAX", ":MEASure:XMIN" }

\* command = f"{measurement}? {source}", the query of a measurement method.
meas_query_command(m, source) == m \o "? " \o source

\* The queries the measurement methods send.
MeasQueries ==
    {meas_query_command(m, source) : m \in Measurements, source \in MeasSources}

\* Replies to a measurement query: a number, and text float() rejects.
MeasReplies == { <<"1", "2">>, <<"A">> }

\* One I/O operation of a call: what was called, on what, with which bytes
\* (sent or received), and whether it completed (FALSE: it raised).
Op(o, a, b, k) == [op |-> o, arg |-> a, bytes |-> b, ok |-> k]

\* The frame of a caller that is in no call: pc is the position, call the
\* method and its arguments, id the number of the call, ops the I/O done so
\* far, src the query whose reply a read handed over; the rest are locals.
Idle ==
    [pc |-> "idle", call |-> << >>, id |-> 0, ops |-> << >>, src |-> None,
     command |-> None, data |-> None, header_length |-> None,
     data_length |-> None, binary_data |-> None]

\* The state after Keysight_DSOX1204G(IO_Conf) returned: the session is
\* opened for "LAN" and for "USB"; for any other argument no OS attribute is set.
Init ==
    /\ IDN = IdentityText \o "\n"
    /\ USB_Addr = UsbAddress
    /\ LAN_Addr = LanAddress
    /\ IO_Conf \in {"LAN", "USB", "GPIB"}
    /\ OS = IF IO_Conf = "LAN" THEN Some(LanAddress)
            ELSE IF IO_Conf = "USB" THEN Some(UsbAddress)
            ELSE None
    /\ session = "open"
    /\ outq = << >>
    /\ files = [l \in Locations |-> None]
    /\ ncalls = 0
    /\ frame = [t \in Threads |-> Idle]
    /\ last = None

\* ----------------------------------------------------- call plumbing

\* Caller t may start a call.
Enter(t) ==
    /\ frame[t].pc = "idle"
    /\ ncalls < MaxCalls
    /\ ncalls' = ncalls + 1

\* The frame of the call c as it starts, with the text cmd in command.
NewFrame(c, cmd) == [Idle EXCEPT !.call = c, !.id = ncalls + 1, !.command = cmd]

\* The call of t goes on with the frame f.
Running(t, f) ==
    /\ frame' = [frame EXCEPT ![t] = f]
    /\ last' = last

\* The call of t ends with the frame f: it returns v, or exc reaches its caller.
Finished(t, f, exc, v) ==
    /\ frame' = [frame EXCEPT ![t] = Idle]
    /\ last' = Some([by |-> t, done |-> TRUE, exc |-> exc, value |-> v,
                     pc |-> f.pc,
                     call |-> f.call, id |-> f.id, ops |-> f.ops,
                     src |-> f.src, command |-> f.command, data |-> f.data,
                     header_length |-> f.header_length,
                     data_length |-> f.data_length,
                     binary_data |-> f.binary_data])

Return(t, f, v) == Finished(t, f, None, v)

Raise(t, f, e) == Finished(t, f, Some(e), "")

\* self.OS.write(c) can complete on an open session only.
CanWrite(ok) == ok => session = "open"

\* The instrument queues a reply for a query it received from call id of t.
Queued(t, c, ok) ==
    IF ok THEN Append(outq, [by |-> t, id |-> ncalls + 1, cmd |-> c]) ELSE outq

\* The replies the instrument may give to the query q.
Replies(q, blocks) ==
    IF q.cmd = "*IDN?" THEN IdnReplies
    ELSE IF q.cmd \in MeasQueries THEN MeasReplies
    ELSE blocks

\* f with the I/O operation o added to its log.
Did(f, o) == [f EXCEPT !.ops = Append(@, o)]

\* ------------------------------------------------------------ saveImage

\* f":DISPlay:DATA? PNG, {palette}"
saveImage_command(palette) == ":DISPlay:DATA? PNG, " \o palette

\* Mutant of saveImage_written: the response is written as it was read.
saveImage_written_Raw(f) == f.data[1]

\* The bytes f.write is given.
saveImage_written(f) == f.binary_data[1]

\* What f.write(b) leaves in a file holding old: b from offset 0 on, over
\* what the file held (another writer's bytes, when two calls share a file).
Overlay(old, b) ==
    IF Len(old) > Len(b) THEN b \o SubSeq(old, Len(b) + 1, Len(old)) ELSE b

\* Lines 215-216: the command is built and written to the session. With no
\* OS attribute the attribute lookup raises; a failed write raises too.
saveImage_Call(t) ==
    \E image \in Images, ok \in BOOLEAN :
        LET c == saveImage_command(image[2])
            f == NewFrame(<<"saveImage", image[1], image[2]>>, Some(c))
            g == Did(f, Op("write", c, << >>, ok))
        IN
        /\ Enter(t)
        /\ IF OS = None
           THEN /\ ~ok
                /\ Raise(t, f, "AttributeError")
                /\ outq' = outq
           ELSE /\ CanWrite(ok)
                /\ outq' = Queued(t, c, ok)
                /\ IF ok THEN Running(t, [g EXCEPT !.pc = "saveImage_219"])
                         ELSE Raise(t, g, "VisaIOError")
        /\ UNCHANGED <<fields, session, files>>

\* Mutant of saveImage_ReadRaw: the response is kept in a buffer every
\* running call of the object shares.
saveImage_ReadRaw_SharedBuffer(t, blocks) ==
    /\ frame[t].pc = "saveImage_219"
    /\ \/ /\ session = "open"
          /\ outq # << >>
          /\ \E r \in Replies(Head(outq), blocks) :
                /\ frame' =
                     [u \in Threads |->
                        IF u = t
                        THEN [Did(frame[t], Op("read_raw", "", r, TRUE))
                                EXCEPT !.pc = "saveImage_221",
                                       !.data = Some(r),
                                       !.src = Some(Head(outq))]
                        ELSE IF frame[u].data # None
                        THEN [frame[u] EXCEPT !.data = Some(r)]
                        ELSE frame[u]]
                /\ last' = last
          /\ outq' = Tail(outq)
       \/ /\ Raise(t, Did(frame[t], Op("read_raw", "", << >>, FALSE)),
                   "VisaIOError")
          /\ outq' = outq
    /\ UNCHANGED <<fields, session, files, ncalls>>

\* Line 219: read_raw hands over the reply at the head of the instrument's
\* output, whichever query it answers; it raises when the session is closed,
\* when nothing is pending (a timeout) or when the transfer fails.
saveImage_ReadRaw(t, blocks) ==
    /\ frame[t].pc = "saveImage_219"
    /\ \/ /\ session = "open"
          /\ outq # << >>
          /\ \E r \in Replies(Head(outq), blocks) :
                Running(t, [Did(frame[t], Op("read_raw", "", r, TRUE))
                              EXCEPT !.pc = "saveImage_221",
                                     !.data = Some(r),
                                     !.src = Some(Head(outq))])
          /\ outq' = Tail(outq)
       \/ /\ Raise(t, Did(frame[t], Op("read_raw", "", << >>, FALSE)),
                   "VisaIOError")
          /\ outq' = outq
    /\ UNCHANGED <<fields, session, files, ncalls>>

\* The frame f after lines 221-226 with the result r of the decode.
Decoded(f, r) ==
    [f EXCEPT !.header_length = r.header_length,
              !.data_length = r.data_length,
              !.binary_data = r.binary_data]

\* Mutant of saveImage_Decode: the header is parsed for the colour palette
\* only, a grayscale response is taken as raw data.
saveImage_Decode_ColorOnly(t) ==
    /\ frame[t].pc = "saveImage_221"
    /\ LET d == frame[t].data[1]
           r == IF frame[t].call[3] = "COLor" THEN Decode(d)
                ELSE [exc |-> None, header_length |-> None,
                      data_length |-> None, binary_data |-> Some(d)]
           f == Decoded(frame[t], r)
       IN  IF r.exc = None THEN Running(t, [f EXCEPT !.pc = "saveImage_229"])
                           ELSE Raise(t, f, r.exc[1])
    /\ UNCHANGED <<fields, session, outq, files, ncalls>>

\* Mutant of saveImage_Decode: the file is opened for writing before the
\* response is decoded.
saveImage_Decode_OpenFirst(t) ==
    /\ frame[t].pc = "saveImage_221"
    /\ files' = [files EXCEPT ![frame[t].call[2]] = Some(<< >>)]
    /\ LET r == Decode(frame[t].data[1])
           f == Decoded(frame[t], r)
       IN  IF r.exc = None THEN Running(t, [f EXCEPT !.pc = "saveImage_229"])
                           ELSE Raise(t, f, r.exc[1])
    /\ UNCHANGED <<fields, session, outq, ncalls>>

\* Lines 221-226: the block header is parsed and the payload sliced out; an
\* int() that fails raises ValueError out of saveImage.
saveImage_Decode(t) ==
    /\ frame[t].pc = "saveImage_221"
    /\ LET r == Decode(frame[t].data[1])
           f == Decoded(frame[t], r)
       IN  IF r.exc = None THEN Running(t, [f EXCEPT !.pc = "saveImage_229"])
                           ELSE Raise(t, f, r.exc[1])
    /\ UNCHANGED <<fields, session, outq, files, ncalls>>

\* Line 229: open(location, 'wb') creates the file or truncates it, or raises.
saveImage_Open(t) ==
    /\ frame[t].pc = "saveImage_229"
    /\ \E ok \in BOOLEAN :
        LET location == frame[t].call[2]
            f == Did(frame[t], Op("open", location, << >>, ok))
        IN  IF ok
            THEN /\ files' = [files EXCEPT ![location] = Some(<< >>)]
                 /\ Running(t, [f EXCEPT !.pc = "saveImage_230"])
            ELSE /\ files' = files
                 /\ Raise(t, f, "OSError")
    /\ UNCHANGED <<fields, session, outq, ncalls>>

\* Line 230: f.write(binary_data), and the file is closed; or the write raises.
saveImage_Write(t) ==
    /\ frame[t].pc = "saveImage_230"
    /\ \E ok \in BOOLEAN :
        LET location == frame[t].call[2]
            b == saveImage_written(frame[t])
            f == Did(frame[t], Op("file_write", location, b, ok))
        IN  IF ok
            THEN /\ files' = [files EXCEPT ![location] = Some(Overlay(@[1], b))]
                 /\ Return(t, f, "None")
            ELSE /\ files' = files
                 /\ Raise(t, f, "OSError")
    /\ UNCHANGED <<fields, session, outq, ncalls>>

\* ------------------------------------------------------ close, IDNCheck

\* str(n) of a small int, as an f-string formats it.
Str(n) ==
    CASE n = 0 -> "0" [] n = 1 -> "1" [] n = 2 -> "2" [] n = 3 -> "3"
      [] n = 4 -> "4" [] n = 5 -> "5" [] n = 6 -> "6" [] n = 7 -> "7"
      [] n = 8 -> "8" [] n = 9 -> "9"

\* The text read() makes of a reply: its bytes, as one string.
RECURSIVE Text(_)
Text(r) == IF r = << >> THEN "" ELSE Head(r) \o Text(Tail(r))

\* Lines 47-48: the session is closed.
close(t) ==
    LET f == NewFrame(<<"close">>, None) IN
    /\ Enter(t)
    /\ IF OS = None
       THEN /\ Raise(t, f, "AttributeError")
            /\ session' = session
       ELSE /\ Return(t, Did(f, Op("close", "", << >>, TRUE)), "None")
            /\ session' = "closed"
    /\ UNCHANGED <<fields, outq, files>>

\* Mutant of IDNCheck_except: the handler lets the error go on to the caller.
IDNCheck_except_Reraise(t, f) == Raise(t, f, "VisaIOError")

\* Lines 63-64: the bare except returns 0.
IDNCheck_except(t, f) == Return(t, f, "0")

\* Mutant of IDNCheck_result: the comparison ignores the trailing newline.
IDNCheck_result_IgnoreNewline(response) ==
    IF response \in {IDN, IdentityText} THEN "1" ELSE "0"

\* Lines 59-62: 1 when the reply equals self.IDN, 0 otherwise.
IDNCheck_result(response) == IF response = IDN THEN "1" ELSE "0"

\* Lines 58-59, first half of query: '*IDN?' is written. A missing OS
\* attribute and a failed write both end in the except clause.
IDNCheck_Call(t) ==
    \E ok \in BOOLEAN :
        LET f == NewFrame(<<"IDNCheck">>, None)
            g == Did(f, Op("write", "*IDN?", << >>, ok))
        IN
        /\ Enter(t)
        /\ IF OS = None
           THEN /\ ~ok
                /\ outq' = outq
                /\ IDNCheck_except(t, f)
           ELSE /\ CanWrite(ok)
                /\ outq' = Queued(t, "*IDN?", ok)
                /\ IF ok THEN Running(t, [g EXCEPT !.pc = "IDNCheck_59"])
                         ELSE IDNCheck_except(t, g)
        /\ UNCHANGED <<fields, session, files>>

\* Lines 59-64, second half of query: the reply is read and compared with
\* self.IDN; a failed read ends in the except clause.
IDNCheck_Read(t) ==
    /\ frame[t].pc = "IDNCheck_59"
    /\ \/ /\ session = "open"
          /\ outq # << >>
          /\ \E r \in Replies(Head(outq), SampleBlocks) :
                Return(t, [Did(frame[t], Op("read", "", r, TRUE))
                             EXCEPT !.src = Some(Head(outq))],
                       IDNCheck_result(Text(r)))
          /\ outq' = Tail(outq)
       \/ /\ IDNCheck_except(t, Did(frame[t], Op("read", "", << >>, FALSE)))
          /\ outq' = outq
    /\ UNCHANGED <<fields, session, files, ncalls>>

\* --------------------------------------------------- the set commands

Channels == {1, 2}
Couplings == {"AC"}
Switches == {1}
Labels == {"CLK"}
Numbers == {5}
Suffixes == {"V"}
Units == {"VOLT"}
Statuses == {"ON"}
Modes == {"EDGE"}
Slopes == {"NEGative"}
Sources == {"CHANnel1"}
Signals == {"SINusoid"}

\* Mutant of SetCommand: the command text is kept on the object between
\* calls and each call sends what has accumulated.
SetCommand_Accumulating(t, c, cmd) ==
    \E ok \in BOOLEAN :
        LET sent == IF last # None /\ last[1].command # None
                    THEN last[1].command[1] \o ";" \o cmd
                    ELSE cmd
            f == NewFrame(c, Some(sent))
            g == Did(f, Op("write", sent, << >>, ok))
        IN
        /\ Enter(t)
        /\ IF OS = None
           THEN ~ok /\ Raise(t, f, "AttributeError")
           ELSE /\ CanWrite(ok)
                /\ IF ok THEN Return(t, g, "None") ELSE Raise(t, g, "VisaIOError")
        /\ UNCHANGED <<fields, session, outq, files>>

\* The body every set method shares: command = <text>; self.OS.write(command).
\* c is the call (method and formatted arguments), cmd the text built.
SetCommand(t, c, cmd) ==
    \E ok \in BOOLEAN :
        LET f == NewFrame(c, Some(cmd))
            g == Did(f, Op("write", cmd, << >>, ok))
        IN
        /\ Enter(t)
        /\ IF OS = None
           THEN ~ok /\ Raise(t, f, "AttributeError")
           ELSE /\ CanWrite(ok)
                /\ IF ok THEN Return(t, g, "None") ELSE Raise(t, g, "VisaIOError")
        /\ UNCHANGED <<fields, session, outq, files>>

single(t) == SetCommand(t, <<"single">>, ":SINGle")

run(t) == SetCommand(t, <<"run">>, ":RUN")

stop(t) == SetCommand(t, <<"stop">>, ":STOP")

channelCoupling(t) ==
    \E Channel \in Channels, Coupling \in Couplings :
        SetCommand(t, <<"channelCoupling", Str(Channel), Coupling>>,
                   ":CHANnel" \o Str(Channel) \o ":COUPling " \o Coupling)

channelDisplay(t) ==
    \E Channel \in Channels, Value \in Switches :
        SetCommand(t, <<"channelDisplay", Str(Channel), Str(Value)>>,
                   ":CHANnel" \o Str(Channel) \o ":DISPLAY " \o Str(Value))

channelInvert(t) ==
    \E Channel \in Channels, Value \in Switches :
        SetCommand(t, <<"channelInvert", Str(Channel), Str(Value)>>,
                   ":CHANnel" \o Str(Channel) \o ":INVert " \o Str(Value))

channelLabel(t) ==
    \E Channel \in Channels, Label \in Labels :
        SetCommand(t, <<"channelLabel", Str(Channel), Label>>,
                   ":CHANnel" \o Str(Channel) \o ":LABel '" \o Label \o "'")

channelOffset(t) ==
    \E Channel \in Channels, Offset \in Numbers, Suffix \in Suffixes :
        SetCommand(t, <<"channelOffset", Str(Channel), Str(Offset), Suffix>>,
                   ":CHANnel" \o Str(Channel) \o ":OFFSet " \o Str(Offset)
                       \o " " \o Suffix)

channelProbeAtt(t) ==
    \E Channel \in Channels, Attenuation \in Numbers :
        SetCommand(t, <<"channelProbeAtt", Str(Channel), Str(Attenuation)>>,
                   ":CHANnel" \o Str(Channel) \o ":PROBe " \o Str(Attenuation))

channelRange(t) ==
    \E Channel \in Channels, Range \in Numbers, Suffix \in Suffixes :
        SetCommand(t, <<"channelRange", Str(Channel), Str(Range), Suffix>>,
                   ":CHANnel" \o Str(Channel) \o ":RANGe " \o Str(Range)
                       \o " " \o Suffix)

channelScale(t) ==
    \E Channel \in Channels, Scale \in Numbers, Suffix \in Suffixes :
        SetCommand(t, <<"channelScale", Str(Channel), Str(Scale), Suffix>>,
                   ":CHANnel" \o Str(Channel) \o ":SCALe " \o Str(Scale)
                       \o " " \o Suffix)

channelUnits(t) ==
    \E Channel \in Channels, Unit \in Units :
        SetCommand(t, <<"channelUnits", Str(Channel), Unit>>,
                   ":CHANnel" \o Str(Channel) \o ":UNITs " \o Unit)

displayLabel(t) ==
    \E status \in Statuses :
        SetCommand(t, <<"displayLabel", status>>, ":DISPlay:LABel " \o status)

measClearAll(t) == SetCommand(t, <<"measClearAll">>, ":MEASure:CLEar")

timeScale(t) ==
    \E value \in Numbers :
        SetCommand(t, <<"timeScale", Str(value)>>,
                   ":TIMebase:SCALe " \o Str(value))

triggerHoldOFF(t) ==
    \E time \in Numbers :
        SetCommand(t, <<"triggerHoldOFF", Str(time)>>,
                   ":TRIGger:HOLDoff " \o Str(time))

triggerMode(t) ==
    \E mode \in Modes :
        SetCommand(t, <<"triggerMode", mode>>, ":TRIGger:MODE " \o mode)

triggerNoiseReject(t) ==
    \E status \in Switches :
        SetCommand(t, <<"triggerNoiseReject", Str(status)>>,
                   ":TRIGger:NREJect " \o Str(status))

triggerlevel(t) ==
    \E level \in Numbers, source \in Sources :
        SetCommand(t, <<"triggerlevel", Str(level), source>>,
                   ":TRIGger:EDGE:LEVel " \o Str(level) \o ", " \o source)

triggerSlope(t) ==
    \E slope \in Slopes :
        SetCommand(t, <<"triggerSlope", slope>>, ":TRIGger:EDGE:SLOPe " \o slope)

triggerSource(t) ==
    \E source \in Sources :
        SetCommand(t, <<"triggerSource", source>>,
                   ":TRIGger:EDGE:SOURce " \o source)

WGenOutput(t) ==
    \E status \in Switches :
        SetCommand(t, <<"WGenOutput", Str(status)>>,
                   ":WGEN:OUTPut " \o Str(status))

WGenFrequency(t) ==
    \E frequency \in Numbers :
        SetCommand(t, <<"WGenFrequency", Str(frequency)>>,
                   ":WGEN:FREQuency " \o Str(frequency))

WGenFunction(t) ==
    \E signal \in Signals :
        SetCommand(t, <<"WGenFunction", signal>>, ":WGEN:FUNCtion " \o signal)

WGenPulseWidth(t) ==
    \E width \in Numbers :
        SetCommand(t, <<"WGenPulseWidth", Str(width)>>,
                   ":WGEN:FUNCtion:PULSe:WIDTh " \o Str(width))

WGenRampSymmetry(t) ==
    \E percent \in Numbers :
        SetCommand(t, <<"WGenRampSymmetry", Str(percent)>>,
                   ":WGEN:FUNCtion:RAMP:SYMMetry " \o Str(percent))

WGenSquareDCycle(t) ==
    \E DCycle \in Numbers :
        SetCommand(t, <<"WGenSquareDCycle", Str(DCycle)>>,
                   ":WGEN:FUNCtion:SQUare:DCYCle " \o Str(DCycle))

WGenAmplitude(t) ==
    \E amplitude \in Numbers :
        SetCommand(t, <<"WGenAmplitude", Str(amplitude)>>,
                   ":WGEN:VOLTage " \o Str(amplitude))

WGenOffset(t) ==
    \E offset \in Numbers :
        SetCommand(t, <<"WGenOffset", Str(offset)>>,
                   ":WGEN:VOLTage:OFFSet " \o Str(offset))

\* The methods that only format a command and write it.
SetMethods ==
    { "single", "run", "stop", "channelCoupling", "channelDisplay",
      "channelInvert", "channelLabel", "channelOffset", "channelProbeAtt",
      "channelRange", "channelScale", "channelUnits", "displayLabel",
      "measClearAll", "timeScale", "triggerHoldOFF", "triggerMode",
      "triggerNoiseReject", "triggerlevel", "triggerSlope", "triggerSource",
      "WGenOutput", "WGenFrequency", "WGenFunction", "WGenPulseWidth",
      "WGenRampSymmetry", "WGenSquareDCycle", "WGenAmplitude", "WGenOffset" }

\* ------------------------------------------- the measurement methods

\* float(s) for the text s of a reply. On text without '.', an exponent or
\* the letters of inf and nan, float() accepts what int() accepts:
\* surrounding whitespace, one sign, digits with single underscores between
\* them. None is ValueError.
PyFloat(s) == PyInt(s)

\* The float of the integral value n, as Python prints it.
FloatStr(n) == ToString(n) \o ".0"

\* command = f"{measurement} {source}", the command that installs a
\* measurement on the screen.
meas_command(m, source) == m \o " " \o source

\* Mutant of meas_installed: the query is sent whether the write came
\* through or not.
meas_installed_Regardless(t, f, e) ==
    Running(t, [f EXCEPT !.pc = "meas_query"])

\* A failed self.OS.write(command) raises out of the method.
meas_installed(t, f, e) == Raise(t, f, e)

\* First command of a measurement method: the measurement m is installed for
\* the source. With no OS attribute the attribute lookup raises.
meas_Write(t, name, m) ==
    \E source \in MeasSources, ok \in BOOLEAN :
        LET c == meas_command(m, source)
            f == NewFrame(<<name, source>>, Some(c))
            g == Did(f, Op("write", c, << >>, ok))
        IN
        /\ Enter(t)
        /\ IF OS = None
           THEN ~ok /\ Raise(t, f, "AttributeError")
           ELSE /\ CanWrite(ok)
                /\ IF ok THEN Running(t, [g EXCEPT !.pc = "meas_query"])
                         ELSE meas_installed(t, g, "VisaIOError")
        /\ UNCHANGED <<fields, session, outq, files>>

\* Second command, first half of query: the query for m and the same source
\* is built and written; a failed write raises.
meas_Query(t, name, m) ==
    /\ frame[t].pc = "meas_query"
    /\ frame[t].call[1] = name
    /\ \E ok \in BOOLEAN :
        LET c == meas_query_command(m, frame[t].call[2])
            f == [frame[t] EXCEPT !.command = Some(c)]
        IN
        /\ CanWrite(ok)
        /\ IF ok
           THEN /\ outq' = Append(outq, [by |-> t, id |-> f.id, cmd |-> c])
                /\ Running(t, [f EXCEPT !.pc = "meas_read"])
           ELSE /\ outq' = outq
                /\ Raise(t, Did(f, Op("query", c, << >>, FALSE)), "VisaIOError")
    /\ UNCHANGED <<fields, session, files, ncalls>>

\* Second half of query and the return: the reply at the head of the
\* instrument's output is read and float() of it returned; a failed read
\* raises, and so does a reply float() rejects.
meas_Read(t, name) ==
    /\ frame[t].pc = "meas_read"
    /\ frame[t].call[1] = name
    /\ LET c == frame[t].command[1] IN
       \/ /\ session = "open"
          /\ outq # << >>
          /\ \E r \in Replies(Head(outq), SampleBlocks) :
                LET f == [Did(frame[t], Op("query", c, r, TRUE))
                            EXCEPT !.src = Some(Head(outq))]
                IN  IF PyFloat(r) = None THEN Raise(t, f, "ValueError")
                    ELSE Return(t, f, FloatStr(PyFloat(r)[1]))
          /\ outq' = Tail(outq)
       \/ /\ Raise(t, Did(frame[t], Op("query", c, << >>, FALSE)), "VisaIOError")
          /\ outq' = outq
    /\ UNCHANGED <<fields, session, files, ncalls>>

\* The body the measurement methods share, for the method name and its
\* measurement m.
Measurement(t, name, m) ==
    \/ meas_Write(t, name, m)
    \/ meas_Query(t, name, m)
    \/ meas_Read(t, name)

measDutyCycle(t) == Measurement(t, "measDutyCycle", ":MEASure:DUTYcycle")

measFallTime(t) == Measurement(t, "measFallTime", ":MEASure:FALLtime")

measRiseTime(t) == Measurement(t, "measRiseTime", ":MEASure:Risetime")

measFrequency(t) == Measurement(t, "measFrequency", ":MEASure:FREQuency")

measAmplitude(t) == Measurement(t, "measAmplitude", ":MEASure:VAMPlitude")

measAverage(t) == Measurement(t, "measAverage", ":MEASure:VAVerage")

measVBase(t) == Measurement(t, "measVBase", ":MEASure:VBASe")

measVTop(t) == Measurement(t, "measVTop", ":MEASure:VTOP")

measVMax(t) == Measurement(t, "measVMax", ":MEASure:VMAX")

measVMin(t) == Measurement(t, "measVMin", ":MEASure:VMIN")

measVPP(t) == Measurement(t, "measVPP", ":MEASure:VPP")

measVrms(t) == Measurement(t, "measVrms", ":MEASure:VRMS")

measXMax(t) == Measurement(t, "measXMax", ":MEASure:XMAX")

measXMin(t) == Measurement(t, "measXMin", ":MEASure:XMIN")

\* ------------------------------------------------------ specification

Next ==
    \E t \in Threads :
        \/ close(t)
        \/ IDNCheck_Call(t)
        \/ IDNCheck_Read(t)
        \/ single(t)
        \/ run(t)
        \/ stop(t)
        \/ channelCoupling(t)
        \/ channelDisplay(t)
        \/ channelInvert(t)
        \/ channelLabel(t)
        \/ channelOffset(t)
        \/ channelProbeAtt(t)
        \/ channelRange(t)
        \/ channelScale(t)
        \/ channelUnits(t)
        \/ displayLabel(t)
        \/ saveImage_Call(t)
        \/ saveImage_ReadRaw(t, SampleBlocks)
        \/ saveImage_Decode(t)
        \/ saveImage_Open(t)
        \/ saveImage_Write(t)
        \/ measClearAll(t)
        \/ measDutyCycle(t)
        \/ measFallTime(t)
        \/ measRiseTime(t)
        \/ measFrequency(t)
        \/ measAmplitude(t)
        \/ measAverage(t)
        \/ measVBase(t)
        \/ measVTop(t)
        \/ measVMax(t)
        \/ measVMin(t)
        \/ measVPP(t)
        \/ measVrms(t)
        \/ measXMax(t)
        \/ measXMin(t)
        \/ timeScale(t)
        \/ triggerHoldOFF(t)
        \/ triggerMode(t)
        \/ triggerNoiseReject(t)
        \/ triggerlevel(t)
        \/ triggerSlope(t)
        \/ triggerSource(t)
        \/ WGenOutput(t)
        \/ WGenFrequency(t)
        \/ WGenFunction(t)
        \/ WGenPulseWidth(t)
        \/ WGenRampSymmetry(t)
        \/ WGenSquareDCycle(t)
        \/ WGenAmplitude(t)
        \/ WGenOffset(t)

Spec == Init /\ [][Next]_vars

\* ------------------------------------- the decode on every response

\* saveImage at line 221, with a response of at most MaxLen bytes in data.
InitDecode ==
    /\ IDN = IdentityText \o "\n"
    /\ USB_Addr = UsbAddress
    /\ LAN_Addr = LanAddress
    /\ IO_Conf = "USB"
    /\ OS = Some(UsbAddress)
    /\ session = "open"
    /\ outq = << >>
    /\ files = [l \in Locations |-> None]
    /\ ncalls = 1
    /\ last = None
    /\ \E r \in BytesUpTo(MaxLen) :
        LET c == saveImage_command("COLor") IN
        frame = [t \in Threads |->
                   IF t = 1
                   THEN [pc |-> "saveImage_221",
                         call |-> <<"saveImage", "a.png", "COLor">>,
                         id |-> 1,
                         ops |-> <<Op("write", c, << >>, TRUE),
                                   Op("read_raw", "", r, TRUE)>>,
                         src |-> Some([by |-> 1, id |-> 1, cmd |-> c]),
                         command |-> Some(c), data |-> Some(r),
                         header_length |-> None, data_length |-> None,
                         binary_data |-> None]
                   ELSE Idle]

NextDecode == saveImage_Decode(1)

SpecDecode == InitDecode /\ [][NextDecode]_vars

\* =====================================================================
\* Properties
\* =====================================================================

\* The running call of caller t, in the shape of a call that ended.
View(t) ==
    [by |-> t, done |-> FALSE, exc |-> None, value |-> "", pc |-> frame[t].pc,
     call |-> frame[t].call, id |-> frame[t].id, ops |-> frame[t].ops,
     src |-> frame[t].src, command |-> frame[t].command,
     data |-> frame[t].data, header_length |-> frame[t].header_length,
     data_length |-> frame[t].data_length,
     binary_data |-> frame[t].binary_data]

\* The calls a state shows: the running ones and the one that ended last.
Visible ==
    {View(t) : t \in {u \in Threads : frame[u].pc # "idle"}}
        \cup (IF last = None THEN {} ELSE {last[1]})

\* The response the call c read.
Response(c) == c.data[1]

\* c is a saveImage call in which lines 221-226 have been executed.
PastDecode(c) ==
    /\ c.call[1] = "saveImage"
    /\ c.data # None
    /\ c.done \/ c.pc # "saveImage_221"

\* The decode of c's response raised and saveImage ended with that exception.
DecodeRaised(c) ==
    /\ PastDecode(c)
    /\ c.done
    /\ c.exc = Some("ValueError")
    /\ c.binary_data = None

\* The decode of c's response produced a payload.
DecodeReturned(c) == PastDecode(c) /\ c.binary_data # None

DigitChar(n) ==
    CASE n = 0 -> "0" [] n = 1 -> "1" [] n = 2 -> "2" [] n = 3 -> "3"
      [] n = 4 -> "4" [] n = 5 -> "5" [] n = 6 -> "6" [] n = 7 -> "7"
      [] n = 8 -> "8" [] n = 9 -> "9"

RECURSIVE Pow10(_)
Pow10(w) == IF w = 0 THEN 1 ELSE 10 * Pow10(w - 1)

\* f"{n:0{w}d}" for 0 <= n < 10^w: n in exactly w decimal digits.
RECURSIVE ZeroPad(_, _)
ZeroPad(n, w) ==
    IF w = 0 THEN << >> ELSE ZeroPad(n \div 10, w - 1) \o <<DigitChar(n % 10)>>

\* b"#" + str(H).encode() + f"{L:0{H}d}".encode(): the header of a block.
BlockHeader(H, L) == <<"#", DigitChar(H)>> \o ZeroPad(L, H)

\* d is a well-formed block with digit-count H and a payload of L bytes,
\* followed by any bytes.
WellFormed(d, H, L) ==
    /\ Len(d) >= 2 + H + L
    /\ d[1] = "#"
    /\ d[2] = DigitChar(H)
    /\ L < Pow10(H)
    /\ SubSeq(d, 1, 2 + H) = BlockHeader(H, L)

\* C1: a well-formed block '#' H L-in-H-digits P decodes to exactly P, for
\* L = 0 as for L > 0, and the bytes after P are not part of the result.
C1_WellFormedBlockYieldsPayload ==
    \A c \in Visible : PastDecode(c) =>
        \A H \in 1..9 : \A L \in 0..(Len(Response(c)) - 2 - H) :
            WellFormed(Response(c), H, L) =>
                /\ ~DecodeRaised(c)
                /\ c.binary_data = Some(SubSeq(Response(c), 3 + H, 2 + H + L))

\* C1 witness: a well-formed block with a non-empty payload and bytes after
\* it has been decoded to the payload alone.
C1_Witness ==
    \E c \in Visible, H \in 1..9, L \in 1..MaxLen :
        /\ DecodeReturned(c)
        /\ WellFormed(Response(c), H, L)
        /\ Len(Response(c)) > 2 + H + L
        /\ c.binary_data = Some(SubSeq(Response(c), 3 + H, 2 + H + L))

\* C2: a response that does not start with '#', the empty one included, is
\* the result unchanged, and no header field is read.
C2_NoMarkerIsRaw ==
    \A c \in Visible :
        (PastDecode(c) /\ (Response(c) = << >> \/ Response(c)[1] # "#")) =>
            /\ ~DecodeRaised(c)
            /\ c.binary_data = Some(Response(c))
            /\ c.header_length = None
            /\ c.data_length = None

\* C2 witness: a non-empty response without the marker, holding a '#' later
\* on, has been decoded to itself.
C2_Witness ==
    \E c \in Visible :
        /\ DecodeReturned(c)
        /\ Response(c) # << >>
        /\ Response(c)[1] # "#"
        /\ \E i \in 2..Len(Response(c)) : Response(c)[i] = "#"
        /\ c.binary_data = Some(Response(c))

\* The bytes that follow a header of digit-count H in d.
Available(d, H) == IF Len(d) > 2 + H THEN SubSeq(d, 3 + H, Len(d)) ELSE << >>

\* The bytes of d's length field that are present, for the digit-count H.
LengthField(d, H) ==
    IF Len(d) > 2 THEN SubSeq(d, 3, Min(2 + H, Len(d))) ELSE << >>

\* C3: when the header parses and declares L but only k < L bytes follow it,
\* the decode does not fail and returns exactly those k bytes.
C3_TruncatedPayloadReturned ==
    \A c \in Visible :
        (PastDecode(c) /\ Response(c) # << >> /\ Response(c)[1] = "#") =>
            LET d == Response(c)
                hl == PyInt(IF Len(d) >= 2 THEN <<d[2]>> ELSE << >>)
            IN  hl # None =>
                LET dl == PyInt(LengthField(d, hl[1])) IN
                (dl # None /\ Len(Available(d, hl[1])) < dl[1]) =>
                    /\ ~DecodeRaised(c)
                    /\ c.binary_data = Some(Available(d, hl[1]))

\* C3 witness: a block declaring 2 bytes with 1 byte after the header has
\* been decoded to that byte.
C3_Witness ==
    \E c \in Visible :
        /\ DecodeReturned(c)
        /\ Len(Response(c)) = 4
        /\ SubSeq(Response(c), 1, 3) = <<"#", "1", "2">>
        /\ c.binary_data = Some(<<Response(c)[4]>>)

\* d starts with '#' and its digit-count byte is missing, is no digit or is
\* 0, or its length field is empty or holds a byte no integer literal has.
Unparseable(d) ==
    /\ d # << >>
    /\ d[1] = "#"
    /\ \/ Len(d) < 2
       \/ d[2] \notin Digit
       \/ d[2] = "0"
       \/ LengthField(d, DigitVal(d[2])) = << >>
       \/ \E i \in 1..Len(LengthField(d, DigitVal(d[2]))) :
              LengthField(d, DigitVal(d[2]))[i] \in {"A", "#"}

\* C4: a response starting with '#' whose digit-count or length field does
\* not parse ends saveImage with an error at its caller: no payload, no
\* fallback to the raw response, no file opened or written.
C4_MalformedHeaderRaises ==
    \A c \in Visible : (PastDecode(c) /\ Unparseable(Response(c))) =>
        /\ c.done
        /\ c.exc = Some("ValueError")
        /\ c.binary_data = None
        /\ \A i \in 1..Len(c.ops) : c.ops[i].op \notin {"open", "file_write"}

\* C4 witness: a response with the non-digit digit-count 'A' has ended the
\* call with ValueError.
C4_Witness ==
    \E c \in Visible :
        /\ PastDecode(c)
        /\ Len(Response(c)) >= 2
        /\ Response(c)[1] = "#"
        /\ Response(c)[2] = "A"
        /\ c.done
        /\ c.exc = Some("ValueError")

\* The value of a sequence of decimal digits.
RECURSIVE Decimal(_)
Decimal(s) ==
    IF s = << >> THEN 0
    ELSE 10 * Decimal(SubSeq(s, 1, Len(s) - 1)) + DigitVal(s[Len(s)])

\* C5: whenever a response starting with '#' decodes without error, its
\* digit-count byte is a digit 1..9, its length field holds decimal digits
\* only (no sign, whitespace or separator), and the payload is a slice from
\* offset 2+H of at most the declared L bytes.
C5_AcceptedHeaderIsStrict ==
    \A c \in Visible :
        (DecodeReturned(c) /\ Response(c) # << >> /\ Response(c)[1] = "#") =>
            LET d == Response(c) IN
            /\ Len(d) >= 2
            /\ d[2] \in Digit \ {"0"}
            /\ LET H == DigitVal(d[2])
                   f == LengthField(d, H)
               IN  /\ \A i \in 1..Len(f) : f[i] \in Digit
                   /\ Len(c.binary_data[1]) <= Decimal(f)
                   /\ c.binary_data[1] =
                        SubSeq(Available(d, H), 1, Len(c.binary_data[1]))

\* c is a call of method m that has ended.
Ended(c, m) == c.done /\ c.call[1] = m

\* Some transport operation of c failed.
TransportFailed(c) == \E i \in 1..Len(c.ops) : ~c.ops[i].ok

\* C6: a saveImage call that returns has done exactly four I/O operations
\* in this order: the query with the palette written to the session, one
\* raw read, the file at location opened for binary writing, and one file
\* write whose bytes are the decoded payload, untransformed.
C6_SaveImageOperationOrder ==
    \A c \in Visible : (Ended(c, "saveImage") /\ c.exc = None) =>
        /\ Len(c.ops) = 4
        /\ c.ops[1] = Op("write", ":DISPlay:DATA? PNG, " \o c.call[3], << >>, TRUE)
        /\ c.ops[2].op = "read_raw"
        /\ c.ops[2].ok
        /\ c.ops[3] = Op("open", c.call[2], << >>, TRUE)
        /\ c.ops[4] = Op("file_write", c.call[2], c.binary_data[1], TRUE)
        /\ files[c.call[2]] # None

\* C6 witness: a saveImage call has returned after reading a block with a
\* header and writing the payload alone, shorter than the response.
C6_Witness ==
    \E c \in Visible :
        /\ Ended(c, "saveImage")
        /\ c.exc = None
        /\ Len(c.ops) = 4
        /\ c.ops[2].bytes = <<"#", "1", "1", "A", "0">>
        /\ c.ops[4].bytes = <<"A">>

\* C7: the decode is a function of the response alone. Two calls that read
\* the same response, whatever their location, palette, caller or the
\* object's state, end the decode alike: both fail, or both hold the same
\* header fields and payload. The response itself is as it was read.
C7_DecodeDependsOnResponseOnly ==
    \A c \in Visible : PastDecode(c) =>
        /\ c.data = Some(c.ops[2].bytes)
        /\ \A e \in Visible :
            (PastDecode(e) /\ Response(e) = Response(c)) =>
                /\ e.binary_data = c.binary_data
                /\ e.header_length = c.header_length
                /\ e.data_length = c.data_length
                /\ DecodeRaised(e) <=> DecodeRaised(c)

\* C7 witness: two calls with different locations and palettes have decoded
\* the same block, header included, to the same payload.
C7_Witness ==
    \E c \in Visible, e \in Visible :
        /\ DecodeReturned(c)
        /\ DecodeReturned(e)
        /\ c.call[2] # e.call[2]
        /\ c.call[3] # e.call[3]
        /\ Response(c) = Response(e)
        /\ Response(c)[1] = "#"
        /\ c.binary_data = e.binary_data

\* C8 as stated (violated): each saveImage call decodes the response to its
\* own command, so the response it read answers the query that same call
\* wrote.
C8_OwnCommandResponse ==
    \A c \in Visible : (c.call[1] = "saveImage" /\ c.src # None) =>
        /\ c.src[1].by = c.by
        /\ c.src[1].id = c.id

\* C8 amended: in every interleaving of concurrent saveImage calls on one
\* object, each call holds exactly what decoding alone the response its own
\* read_raw returned gives, and writes that payload; the response it read
\* may answer the other call's query.
C8_PayloadOfOwnRead ==
    \A c \in Visible : PastDecode(c) =>
        LET r == Decode(c.ops[2].bytes) IN
        /\ c.binary_data = r.binary_data
        /\ DecodeRaised(c) <=> r.exc # None
        /\ \A i \in 1..Len(c.ops) :
              c.ops[i].op = "file_write" => Some(c.ops[i].bytes) = r.binary_data

\* C8 witness: two saveImage calls run at once between read and file write,
\* they read different responses, one of them the reply to the other's
\* query, and each holds the payload of the response it read.
C8_Witness ==
    /\ \A t \in Threads : frame[t].pc \in {"saveImage_229", "saveImage_230"}
    /\ frame[1].data # frame[2].data
    /\ frame[1].binary_data # frame[2].binary_data
    /\ frame[1].src[1].by = 2
    /\ \A t \in Threads :
          frame[t].binary_data = Decode(frame[t].ops[2].bytes).binary_data

\* C9 as stated (violated): a transport failure during IDNCheck reaches the
\* caller as an error and is never turned into a returned flag.
C9_TransportFailurePropagates ==
    \A c \in Visible : (Ended(c, "IDNCheck") /\ TransportFailed(c)) =>
        c.exc # None

\* C9 amended: a transport failure during IDNCheck (the write or the read of
\* the query fails) is caught inside the method: the call returns 0 and no
\* error reaches the caller.
C9_TransportFailureReturnsZero ==
    \A c \in Visible : (Ended(c, "IDNCheck") /\ TransportFailed(c)) =>
        /\ c.exc = None
        /\ c.value = "0"

\* C9 witness: an IDNCheck whose read of the reply failed has returned 0.
C9_Witness ==
    \E c \in Visible :
        /\ Ended(c, "IDNCheck")
        /\ Len(c.ops) = 2
        /\ c.ops[1].ok
        /\ ~c.ops[2].ok
        /\ c.exc = None
        /\ c.value = "0"

\* l is a set-type method call that has ended.
SetCall(l) == l # None /\ l[1].call[1] \in SetMethods

\* C10 as stated (violated): every set-type method call sends exactly one
\* command string to the transport.
C10_AlwaysOneCommand ==
    \A c \in Visible : (c.done /\ c.call[1] \in SetMethods) =>
        /\ Len(c.ops) = 1
        /\ c.ops[1].op = "write"

\* C10 amended: on an object constructed with IO_Conf 'LAN' or 'USB' each
\* set-type method call makes exactly one transport write, of the string it
\* built, and two calls with the same arguments send the same string
\* whatever was called before; constructed with any other IO_Conf the
\* object has no session and the call raises AttributeError having sent
\* nothing. No call changes IDN, USB_Addr, LAN_Addr or OS.
C10_OneCommandFromOwnArguments ==
    [][/\ IDN' = IDN
       /\ USB_Addr' = USB_Addr
       /\ LAN_Addr' = LAN_Addr
       /\ OS' = OS
       /\ (OS = None) <=> (IO_Conf \notin {"LAN", "USB"})
       /\ SetCall(last') =>
            IF IO_Conf \in {"LAN", "USB"}
            THEN /\ Len(last'[1].ops) = 1
                 /\ last'[1].ops[1].op = "write"
                 /\ last'[1].ops[1].arg = last'[1].command[1]
                 /\ last'[1].exc \in {None, Some("VisaIOError")}
            ELSE /\ last'[1].ops = << >>
                 /\ last'[1].exc = Some("AttributeError")
       /\ (SetCall(last) /\ SetCall(last') /\ last[1].call = last'[1].call
             /\ OS # None) =>
            last'[1].ops[1].arg = last[1].ops[1].arg]_vars

\* C10 witness: on an object with a session, a set-type call with arguments
\* has followed another call that sent a command, and made its one write.
C10_Witness ==
    /\ OS # None
    /\ ncalls = 2
    /\ SetCall(last)
    /\ last[1].call = <<"channelOffset", "2", "5", "V">>
    /\ Len(last[1].ops) = 1
    /\ last[1].ops[1] = Op("write", ":CHANnel2:OFFSet 5 V", << >>, TRUE)

\* C11: IDNCheck returns 1 exactly when the write and the read of the
\* '*IDN?' query both complete and the reply is the stored identity, its
\* trailing newline included; in every other case (another reply, a failed
\* write or read, no session because IO_Conf was neither 'LAN' nor 'USB')
\* it returns 0, and no IDNCheck call ends with an exception.
C11_IDNCheckFlag ==
    \A c \in Visible : Ended(c, "IDNCheck") =>
        LET completed == /\ Len(c.ops) = 2
                         /\ c.ops[1] = Op("write", "*IDN?", << >>, TRUE)
                         /\ c.ops[2].op = "read"
                         /\ c.ops[2].ok
            matches == /\ completed
                       /\ Text(c.ops[2].bytes) =
                            "KEYSIGHT TECHNOLOGIES,DSOX1204G,CN60167508,02.10.2019111333\n"
        IN  /\ c.exc = None
            /\ c.value = IF matches THEN "1" ELSE "0"
            /\ IO_Conf \notin {"LAN", "USB"} => (c.ops = << >> /\ c.value = "0")

\* C11 witness: an IDNCheck whose write and read completed has read the
\* identity with its newline and returned 1.
C11_Witness ==
    \E c \in Visible :
        /\ Ended(c, "IDNCheck")
        /\ Len(c.ops) = 2
        /\ c.ops[2].ok
        /\ c.ops[2].bytes = <<IdentityText, "\n">>
        /\ c.exc = None
        /\ c.value = "1"

\* The measurement each measurement method is documented to install and
\* query.
MeasurementOf ==
    [measDutyCycle |-> ":MEASure:DUTYcycle", measFallTime |-> ":MEASure:FALLtime",
     measRiseTime |-> ":MEASure:Risetime", measFrequency |-> ":MEASure:FREQuency",
     measAmplitude |-> ":MEASure:VAMPlitude", measAverage |-> ":MEASure:VAVerage",
     measVBase |-> ":MEASure:VBASe", measVTop |-> ":MEASure:VTOP",
     measVMax |-> ":MEASure:VMAX", measVMin |-> ":MEASure:VMIN",
     measVPP |-> ":MEASure:VPP", measVrms |-> ":MEASure:VRMS",
     measXMax |-> ":MEASure:XMAX", measXMin |-> ":MEASure:XMIN"]

\* c is a measurement method call that has ended.
MeasCall(c) == c.done /\ c.call[1] \in DOMAIN MeasurementOf

\* C12 as stated (violated): every measurement method call issues a write
\* and then a query, and only the write when the write fails.
C12_AlwaysWriteThenQuery ==
    \A c \in Visible : MeasCall(c) =>
        /\ Len(c.ops) >= 1
        /\ c.ops[1].op = "write"
        /\ IF c.ops[1].ok
           THEN Len(c.ops) = 2 /\ c.ops[2].op = "query"
           ELSE Len(c.ops) = 1

\* C12 amended: on an object constructed with IO_Conf 'LAN' or 'USB', every
\* measurement method call writes the command installing its measurement
\* for the source and then, only if that write came through, queries the
\* same measurement for the same source, and does nothing else on the
\* transport; a call that returns returns float() of the reply its query
\* read. Constructed with any other IO_Conf the object has no session and
\* the call raises AttributeError having sent nothing.
C12_WriteThenQuerySameMeasurement ==
    \A c \in Visible : MeasCall(c) =>
        LET m == MeasurementOf[c.call[1]]
            source == c.call[2]
        IN
        IF IO_Conf \in {"LAN", "USB"}
        THEN /\ Len(c.ops) \in {1, 2}
             /\ c.ops[1].op = "write"
             /\ c.ops[1].arg = m \o " " \o source
             /\ IF c.ops[1].ok
                THEN /\ Len(c.ops) = 2
                     /\ c.ops[2].op = "query"
                     /\ c.ops[2].arg = m \o "? " \o source
                ELSE /\ Len(c.ops) = 1
                     /\ c.exc = Some("VisaIOError")
             /\ c.exc = None =>
                    /\ c.ops[2].ok
                    /\ PyFloat(c.ops[2].bytes) # None
                    /\ c.value = ToString(PyFloat(c.ops[2].bytes)[1]) \o ".0"
             /\ (Len(c.ops) = 2 /\ c.ops[2].ok /\ PyFloat(c.ops[2].bytes) = None)
                    => c.exc = Some("ValueError")
        ELSE /\ c.ops = << >>
             /\ c.exc = Some("AttributeError")

\* C12 witness: a measurement call has written its command, queried the
\* same measurement for the same source and returned the number read.
C12_Witness ==
    \E c \in Visible :
        /\ MeasCall(c)
        /\ c.call = <<"measVPP", "CHANnel1">>
        /\ c.ops = << Op("write", ":MEASure:VPP CHANnel1", << >>, TRUE),
                      Op("query", ":MEASure:VPP? CHANnel1", <<"1", "2">>, TRUE) >>
        /\ c.exc = None
        /\ c.value = "12.0"

\* The saveImage call of t is before line 229: it has not started, or it
\* is sending the command, reading the response or decoding it.
BeforeOpen(t) == frame[t].pc \in {"idle", "saveImage_219", "saveImage_221"}

\* l is a saveImage call that failed sending the command, reading the
\* response or parsing the block header.
FailedBeforeOpen(l) ==
    /\ l # None
    /\ l[1].call[1] = "saveImage"
    /\ l[1].exc \in {Some("AttributeError"), Some("VisaIOError"),
                     Some("ValueError")}

\* C13: a saveImage call that fails while sending the command, reading the
\* response or parsing the block header has not opened or written a file,
\* and the step in which it fails leaves every file as it was; files change
\* only in a step of a saveImage call that holds an extracted payload, and
\* only the file at that call's location.
C13_NoFileBeforePayload ==
    [][/\ (last' # last /\ FailedBeforeOpen(last')) =>
            /\ files' = files
            /\ \A i \in 1..Len(last'[1].ops) :
                  last'[1].ops[i].op \notin {"open", "file_write"}
       /\ files' # files =>
            \E t \in Threads :
                /\ frame'[t] # frame[t]
                /\ frame[t].call[1] = "saveImage"
                /\ ~BeforeOpen(t)
                /\ frame[t].binary_data # None
                /\ \A l \in Locations \ {frame[t].call[2]} :
                      files'[l] = files[l]]_vars

\* C13 witness: a saveImage call has failed parsing the block header, and
\* the file at its location still holds what an earlier call wrote.
C13_Witness ==
    /\ FailedBeforeOpen(last)
    /\ last[1].exc = Some("ValueError")
    /\ last[1].data = Some(<<"#", "A">>)
    /\ files[last[1].call[2]] = Some(<<"A">>)

====
